---- MODULE Spec2Model ----
(***************************************************************************)
(* kdash-monitor: the multi-cluster polling, aggregation and alerting      *)
(* engine.  The model covers                                               *)
(*   - the metrics store (snapshots and alerts tables, internal/store),    *)
(*   - the collector loop of cmd/server/main.go (two tickers, one          *)
(*     sequential pass over the configured clusters per collection tick),  *)
(*   - the alert thresholds (checkAndCreateAlerts) and the health rule     *)
(*     (determineClusterStatus).                                           *)
(* Time is in whole seconds; the process starts at time 0, so rows that a  *)
(* database file kept from an earlier run carry negative timestamps.       *)
(* Percentages are whole numbers: the code compares float64 values with    *)
(* strict > against 80 and 95, and the samples sit on and next to each     *)
(* boundary.                                                               *)
(***************************************************************************)
EXTENDS Integers, Sequences, FiniteSets, TLC

VARIABLES
    k8sNil,     \* main.go: k8sService == nil (NewKubernetesService failed)
    configs,    \* KubernetesService.configs: sequence of [name, enabled]
    clients,    \* KubernetesService.clients: names that have a clientset
    now,        \* wall clock, seconds since process start
    tickC,      \* ticker.C holds a tick (channel of capacity 1)
    cleanC,     \* cleanupTicker.C holds a tick
    nextTick,   \* time at which ticker fires next
    nextClean,  \* time at which cleanupTicker fires next
    pc,         \* position of the collector goroutine
    idx,        \* index of the cluster the for-loop of collectMetrics is at
    deadline,   \* deadline of the ctx collectMetrics created
    snapshot,   \* the MetricSnapshot being filled for configs[idx]
    failed,     \* local variable failed of collectMetrics
    snapshots,  \* table metric_snapshots: set of rows
    alerts,     \* table alerts: set of rows
    log,        \* history: the calls made in the current collection cycle
    cycles,     \* history: collection cycles started
    faults,     \* history: failures injected by the environment so far
    ret,        \* what the last store call returned: [op, id, err, at]
    req,        \* arguments of the call a read API makes
    tier,       \* its result ("" before the call)
    main        \* the main goroutine: [at, since], blocked on quit while serving

vars == <<k8sNil, configs, clients, now, tickC, cleanC, nextTick, nextClean,
          pc, idx, deadline, snapshot, failed, snapshots, alerts, log,
          cycles, faults, ret, req, tier, main>>

registryVars == <<k8sNil, configs, clients>>
timerVars == <<tickC, cleanC, nextTick, nextClean>>
loopVars == <<pc, idx, deadline, snapshot, failed>>
histVars == <<log, cycles, faults>>
classifyVars == <<req, tier, main>>

-----------------------------------------------------------------------------
(* Bounds of the model *)

\* rows a table may hold before the store specifications stop inserting
MaxRows == 3
\* last clock value of the store specifications
MaxNow == 2
\* collection cycles the collector specification runs
MaxCycles == 2
\* failures the environment may inject in one run of the collector
MaxFaults == 2

(* Program constants, in seconds and percent *)
CollectInterval == 60
CleanupInterval == 3600
RetentionWindow == 86400
CollectTimeout == 30
PromCheckTimeout == 5
HTTPClientTimeout == 10
CPUCritical == 95
CPUWarning == 80
MemCritical == 95
MemWarning == 80

Clusters == {"a", "b"}

Max(S) == CHOOSE x \in S : \A y \in S : y <= x
Min(S) == CHOOSE x \in S : \A y \in S : x <= y

-----------------------------------------------------------------------------
(* The metrics store *)

\* An integer primary key left at zero is assigned by SQLite: one more than
\* the largest id in the table.
NextID(rows) == IF rows = {} THEN 1 ELSE Max({r.id : r \in rows}) + 1

\* db.Create(row): insert, taking the caller's id when it is not zero; the
\* insert fails on a database fault or a duplicate primary key.
Create(rows, row, dbOk) ==
    LET id == IF row.id = 0 THEN NextID(rows) ELSE row.id
        dup == \E r \in rows : r.id = id
    IN  IF dbOk /\ ~dup
        THEN [rows |-> rows \cup {[row EXCEPT !.id = id]}, id |-> id, err |-> FALSE]
        ELSE [rows |-> rows, id |-> row.id, err |-> TRUE]

\* SaveSnapshot: snapshot.Timestamp = time.Now(); db.Create(snapshot)
SaveSnapshot(rows, snap, t, dbOk) == Create(rows, [snap EXCEPT !.ts = t], dbOk)

\* SaveAlert: alert.Timestamp = time.Now(); db.Create(alert)
SaveAlert(rows, alert, t, dbOk) == Create(rows, [alert EXCEPT !.ts = t], dbOk)

\* ORDER BY timestamp ASC / DESC; rows of equal timestamp in id order
RECURSIVE OrderAsc(_)
OrderAsc(rows) ==
    IF rows = {} THEN <<>>
    ELSE LET m == CHOOSE r \in rows : \A q \in rows :
                      r.ts < q.ts \/ (r.ts = q.ts /\ r.id <= q.id)
         IN  <<m>> \o OrderAsc(rows \ {m})

RECURSIVE OrderDesc(_)
OrderDesc(rows) ==
    IF rows = {} THEN <<>>
    ELSE LET m == CHOOSE r \in rows : \A q \in rows :
                      r.ts > q.ts \/ (r.ts = q.ts /\ r.id <= q.id)
         IN  <<m>> \o OrderDesc(rows \ {m})

\* GetSnapshots: WHERE cluster = ? AND timestamp > now - since ORDER BY timestamp ASC
GetSnapshotsWrongCluster(rows, cluster, since, t) ==
    OrderAsc({r \in rows : r.ts > t - since})

GetSnapshotsInclusive(rows, cluster, since, t) ==
    OrderAsc({r \in rows : r.cluster = cluster /\ r.ts >= t - since})

GetSnapshots(rows, cluster, since, t) ==
    OrderAsc({r \in rows : r.cluster = cluster /\ r.ts > t - since})

\* CleanupOldSnapshots: DELETE WHERE timestamp < now - olderThan
CleanupOldSnapshotsAll(rows, olderThan, t, dbOk) ==
    IF dbOk THEN [rows |-> {}, err |-> FALSE] ELSE [rows |-> rows, err |-> TRUE]

CleanupOldSnapshotsInclusive(rows, olderThan, t, dbOk) ==
    IF dbOk
    THEN [rows |-> {r \in rows : ~(r.ts <= t - olderThan)}, err |-> FALSE]
    ELSE [rows |-> rows, err |-> TRUE]

CleanupOldSnapshots(rows, olderThan, t, dbOk) ==
    IF dbOk
    THEN [rows |-> {r \in rows : ~(r.ts < t - olderThan)}, err |-> FALSE]
    ELSE [rows |-> rows, err |-> TRUE]

\* GetActiveAlerts: WHERE resolved = false ORDER BY timestamp DESC
GetActiveAlertsUnfiltered(rows) == OrderDesc(rows)

GetActiveAlertsAscending(rows) == OrderAsc({r \in rows : ~r.resolved})

GetActiveAlerts(rows) == OrderDesc({r \in rows : ~r.resolved})

\* ResolveAlert: UPDATE alerts SET resolved = true WHERE id = ?
ResolveAlertNoWhere(rows, id, dbOk) ==
    IF dbOk
    THEN [rows |-> {[r EXCEPT !.resolved = TRUE] : r \in rows}, err |-> FALSE]
    ELSE [rows |-> rows, err |-> TRUE]

ResolveAlertDeletes(rows, id, dbOk) ==
    IF dbOk
    THEN [rows |-> {r \in rows : r.id # id}, err |-> FALSE]
    ELSE [rows |-> rows, err |-> TRUE]

ResolveAlert(rows, id, dbOk) ==
    IF dbOk
    THEN [rows |-> {IF r.id = id THEN [r EXCEPT !.resolved = TRUE] ELSE r : r \in rows},
          err |-> FALSE]
    ELSE [rows |-> rows, err |-> TRUE]

SeqToSet(s) == {s[i] : i \in DOMAIN s}

NoRet == [op |-> "none", id |-> 0, err |-> FALSE, at |-> 0]

-----------------------------------------------------------------------------
(* Initial values shared by the specifications *)

NoSnapshot == [id |-> 0, cluster |-> "", cpu |-> 0, mem |-> 0, pods |-> 0,
               nodes |-> 0, ts |-> 0]

NoReq == [cpu |-> 0, mem |-> 0, pending |-> 0, failed |-> 0]

\* main blocked in <-quit
AtQuit == [at |-> "quit", since |-> 0]

\* the collector goroutine blocked in its select, nothing collected yet
IdleCollector ==
    /\ pc = "select" /\ idx = 0 /\ deadline = 0
    /\ snapshot = NoSnapshot /\ failed = 0
    /\ tickC = FALSE /\ cleanC = FALSE
    /\ log = <<>> /\ cycles = 0 /\ faults = 0
    /\ ret = NoRet /\ req = NoReq /\ tier = "" /\ main = AtQuit

-----------------------------------------------------------------------------
(* The store under its callers: any sequence of calls of its methods, with  *)
(* any field values a caller can put into the record it passes.             *)

\* a record as a caller of SaveAlert may fill it: ID, Timestamp and Resolved
\* are ordinary fields of models.Alert
CallerAlerts ==
    [id : {0, 2}, cluster : Clusters, severity : {"Warning"},
     message : {[kind |-> "text", val |-> 0]}, ts : {7}, resolved : BOOLEAN]

CallerSnapshots ==
    [id : {0, 2}, cluster : Clusters, cpu : {45}, mem : {60}, pods : {10},
     nodes : {3}, ts : {7}]

ResolveIds == 0 .. (MaxRows + 1)

Windows == 0 .. MaxNow

InitStore ==
    /\ IdleCollector
    /\ k8sNil = TRUE /\ configs = <<>> /\ clients = {}
    /\ now = 0 /\ nextTick = CollectInterval /\ nextClean = CleanupInterval
    /\ snapshots = {} /\ alerts = {}

storeFrame == <<registryVars, timerVars, loopVars, histVars, classifyVars>>

\* time passes between two calls
Advance ==
    /\ now < MaxNow
    /\ now' = now + 1
    /\ UNCHANGED <<storeFrame, snapshots, alerts, ret>>

CallSaveAlert ==
    \E alert \in CallerAlerts, dbOk \in BOOLEAN :
        /\ Cardinality(alerts) < MaxRows
        /\ LET out == SaveAlert(alerts, alert, now, dbOk)
           IN  /\ alerts' = out.rows
               /\ ret' = [op |-> "SaveAlert", id |-> out.id, err |-> out.err, at |-> now]
        /\ UNCHANGED <<storeFrame, now, snapshots>>

CallResolveAlert ==
    \E id \in ResolveIds, dbOk \in BOOLEAN :
        /\ LET out == ResolveAlert(alerts, id, dbOk)
           IN  /\ alerts' = out.rows
               /\ ret' = [op |-> "ResolveAlert", id |-> id, err |-> out.err, at |-> now]
        /\ UNCHANGED <<storeFrame, now, snapshots>>

CallSaveSnapshot ==
    \E snap \in CallerSnapshots, dbOk \in BOOLEAN :
        /\ Cardinality(snapshots) < MaxRows
        /\ LET out == SaveSnapshot(snapshots, snap, now, dbOk)
           IN  /\ snapshots' = out.rows
               /\ ret' = [op |-> "SaveSnapshot", id |-> out.id, err |-> out.err, at |-> now]
        /\ UNCHANGED <<storeFrame, now, alerts>>

CallCleanup ==
    \E olderThan \in Windows, dbOk \in BOOLEAN :
        /\ LET out == CleanupOldSnapshots(snapshots, olderThan, now, dbOk)
           IN  /\ snapshots' = out.rows
               /\ ret' = [op |-> "CleanupOldSnapshots", id |-> 0, err |-> out.err, at |-> now]
        /\ UNCHANGED <<storeFrame, now, alerts>>

NextAlertStore == Advance \/ CallSaveAlert \/ CallResolveAlert

SpecAlertStore == InitStore /\ [][NextAlertStore]_vars

NextSnapStore == Advance \/ CallSaveSnapshot \/ CallCleanup

SpecSnapStore == InitStore /\ [][NextSnapStore]_vars

-----------------------------------------------------------------------------
(* Claims about the store *)

Active(rows) == {r \in rows : ~r.resolved}

Sinces == Windows \cup {MaxNow + 1, RetentionWindow}

\* C7: raiseAlert stores the alert under an id of the store's that no other
\* alert has, with the time of the call as timestamp and resolved = false
\* whatever the caller put in the record, so that an alert just raised is in
\* the activeAlerts result.
C7_RaisedAlertIsActive ==
    /\ \A r, q \in alerts : r.id = q.id => r = q
    /\ (ret.op = "SaveAlert" /\ ~ret.err) =>
          \E r \in alerts :
              /\ r.id = ret.id
              /\ r.ts = ret.at
              /\ r.resolved = FALSE
              /\ r \in SeqToSet(GetActiveAlerts(alerts))

\* C8: resolve(id) takes exactly the unresolved alert of that id out of the
\* activeAlerts result and leaves every other alert as it was; on an id that
\* no alert has, or whose alert is resolved already, it returns no error and
\* changes nothing; resolving twice is resolving once.
C8_ResolveIdempotent ==
    /\ \A id \in ResolveIds :
          LET out == ResolveAlert(alerts, id, TRUE)
              target == {r \in alerts : r.id = id /\ ~r.resolved}
          IN  /\ ~out.err
              /\ SeqToSet(GetActiveAlerts(out.rows)) =
                     SeqToSet(GetActiveAlerts(alerts)) \ target
              /\ \A r \in alerts : r.id # id => r \in out.rows
              /\ \A r \in alerts : r.id = id => [r EXCEPT !.resolved = TRUE] \in out.rows
              /\ Cardinality(out.rows) = Cardinality(alerts)
              /\ (target = {} => out.rows = alerts)
              /\ ResolveAlert(out.rows, id, TRUE) = out
              /\ ResolveAlert(alerts, id, FALSE).rows = alerts
    /\ (ret.op = "ResolveAlert" /\ ~ret.err) =>
          \A r \in alerts : r.id = ret.id => r.resolved

\* an alert was resolved by a call while another alert stayed active
C8_Witness ==
    /\ ret.op = "ResolveAlert" /\ ~ret.err
    /\ \E r \in alerts : r.id = ret.id /\ r.resolved
    /\ \E q \in alerts : q.id # ret.id /\ ~q.resolved

\* C9: after any sequence of raiseAlert and resolve calls, activeAlerts is
\* exactly the stored alerts with resolved = false, of every cluster, each
\* once, in descending order of timestamp.
C9_ActiveAlertsExact ==
    LET res == GetActiveAlerts(alerts)
    IN  /\ SeqToSet(res) = Active(alerts)
        /\ Len(res) = Cardinality(Active(alerts))
        /\ \A i, j \in DOMAIN res : i < j => res[i].ts >= res[j].ts

\* two active alerts of different clusters and times beside a resolved one
C9_Witness ==
    /\ \E r, q \in Active(alerts) : r.ts < q.ts /\ r.cluster # q.cluster
    /\ \E r \in alerts : r.resolved
    /\ ret.op = "ResolveAlert"

\* C10: append stamps the entry with the time of the append, and
\* range(cluster, since) is exactly the entries in the table of that cluster
\* with timestamp strictly newer than now - since, each once, in ascending
\* order of timestamp; so an entry appended within the window is returned.
C10_RangeExact ==
    /\ \A c \in Clusters, since \in Sinces :
          LET res == GetSnapshots(snapshots, c, since, now)
              want == {r \in snapshots : r.cluster = c /\ r.ts > now - since}
          IN  /\ SeqToSet(res) = want
              /\ Len(res) = Cardinality(want)
              /\ \A i, j \in DOMAIN res : i < j => res[i].ts <= res[j].ts
    /\ (ret.op = "SaveSnapshot" /\ ~ret.err) =>
          \E r \in snapshots :
              /\ r.id = ret.id
              /\ r.ts = ret.at
              /\ \A since \in Sinces : since > now - ret.at =>
                    r \in SeqToSet(GetSnapshots(snapshots, r.cluster, since, now))

\* two entries of one cluster of which a window returns only the newer,
\* beside an entry of the other cluster
C10_Witness ==
    /\ ret.op = "SaveSnapshot" /\ ~ret.err
    /\ \E r \in snapshots : r.cluster = "b"
    /\ \E since \in Sinces :
          /\ Len(GetSnapshots(snapshots, "a", since, now)) = 1
          /\ Cardinality({r \in snapshots : r.cluster = "a"}) = 2
          /\ GetSnapshots(snapshots, "a", since, now)[1].id = ret.id

-----------------------------------------------------------------------------
(* The health rule *)

\* determineClusterStatus
determineClusterStatusInclusive(cpuUsage, memUsage, pending, failedPods) ==
    IF cpuUsage >= 95 \/ memUsage >= 95 \/ failedPods > 0 THEN "Critical"
    ELSE IF cpuUsage >= 80 \/ memUsage >= 80 \/ pending >= 5 THEN "Warning"
    ELSE "Healthy"

determineClusterStatus(cpuUsage, memUsage, pending, failedPods) ==
    IF cpuUsage > 95 \/ memUsage > 95 \/ failedPods > 0 THEN "Critical"
    ELSE IF cpuUsage > 80 \/ memUsage > 80 \/ pending > 5 THEN "Warning"
    ELSE "Healthy"

\* percentages on and next to the boundaries of the rule, and past 100
PctSamples == {0, 50, 80, 81, 95, 96, 120}
PendingSamples == {0, 5, 6}
FailedSamples == {0, 1, 2}

InitClassify ==
    /\ IdleCollector!1 /\ IdleCollector!2 /\ IdleCollector!3 /\ IdleCollector!4
    /\ ret = NoRet /\ tier = "" /\ main = AtQuit
    /\ req \in [cpu : PctSamples, mem : PctSamples, pending : PendingSamples,
                failed : {0, 1}]
    /\ k8sNil = TRUE /\ configs = <<>> /\ clients = {}
    /\ now = 0 /\ nextTick = CollectInterval /\ nextClean = CleanupInterval
    /\ snapshots = {} /\ alerts = {}

\* a read API computes the status of a cluster from the data it gathered
Classify ==
    /\ tier = ""
    /\ tier' = determineClusterStatus(req.cpu, req.mem, req.pending, req.failed)
    /\ UNCHANGED <<registryVars, timerVars, loopVars, histVars, now, snapshots,
                   alerts, ret, req, main>>

SpecClassify == InitClassify /\ [][Classify]_vars

\* C6: classify is total and applies the rules in priority order: Critical if
\* cpu > 95 or mem > 95 or failedPods > 0; otherwise Warning if cpu > 80 or
\* mem > 80 or pendingPods > 5; otherwise Healthy; the comparisons are strict.
C6_ClassifyRule ==
    tier # "" =>
        LET critical == req.cpu > 95 \/ req.mem > 95 \/ req.failed > 0
            warning == req.cpu > 80 \/ req.mem > 80 \/ req.pending > 5
        IN  /\ tier \in {"Critical", "Warning", "Healthy"}
            /\ (tier = "Critical") = critical
            /\ (tier = "Warning") = (~critical /\ warning)
            /\ (tier = "Healthy") = (~critical /\ ~warning)
            /\ (req.failed > 0 => tier = "Critical")
            /\ (req = [cpu |-> 96, mem |-> 0, pending |-> 0, failed |-> 0] => tier = "Critical")
            /\ (req = [cpu |-> 95, mem |-> 0, pending |-> 0, failed |-> 0] => tier = "Warning")
            /\ (req = [cpu |-> 81, mem |-> 0, pending |-> 0, failed |-> 0] => tier = "Warning")
            /\ (req = [cpu |-> 80, mem |-> 0, pending |-> 0, failed |-> 0] => tier = "Healthy")
            /\ (req = [cpu |-> 50, mem |-> 50, pending |-> 0, failed |-> 0] => tier = "Healthy")
            /\ (req = [cpu |-> 0, mem |-> 0, pending |-> 5, failed |-> 0] => tier = "Healthy")
            /\ (req = [cpu |-> 0, mem |-> 0, pending |-> 6, failed |-> 0] => tier = "Warning")
            /\ (req = [cpu |-> 0, mem |-> 0, pending |-> 0, failed |-> 1] => tier = "Critical")

\* cpu exactly 95 with nothing else classified: Warning, not Critical
C6_Witness ==
    /\ tier = "Warning"
    /\ req = [cpu |-> 95, mem |-> 0, pending |-> 0, failed |-> 0]

-----------------------------------------------------------------------------
(* The clusters as the collector finds them.  What a backend reports is    *)
(* fixed per cluster; whether a call reaches it is the environment's       *)
(* choice at every call.                                                   *)

TrueNodes == [c \in Clusters |-> IF c = "a" THEN 3 ELSE 2]

TruePods ==
    [c \in Clusters |-> IF c = "a" THEN <<"Running", "Pending", "Failed">>
                                   ELSE <<"Running", "Succeeded">>]

TrueCpu == [c \in Clusters |-> IF c = "a" THEN 96 ELSE 85]

TrueMem == [c \in Clusters |-> IF c = "a" THEN 50 ELSE 96]

\* GetPodSummary: one pass over the pods, the switch on pod.Status and
\* total++ for each
NoPods == [running |-> 0, pending |-> 0, failed |-> 0, total |-> 0]

CountPod(sum, status) ==
    LET counted == IF status = "Running" THEN [sum EXCEPT !.running = @ + 1]
                   ELSE IF status = "Pending" THEN [sum EXCEPT !.pending = @ + 1]
                   ELSE IF status = "Failed" THEN [sum EXCEPT !.failed = @ + 1]
                   ELSE sum
    IN  [counted EXCEPT !.total = @ + 1]

RECURSIVE GetPodSummaryNotFailed(_)
GetPodSummaryNotFailed(pods) ==
    IF pods = <<>> THEN NoPods
    ELSE LET sum == GetPodSummaryNotFailed(SubSeq(pods, 1, Len(pods) - 1))
             status == pods[Len(pods)]
         IN  CountPod(sum, IF status \in {"Succeeded", "Unknown"} THEN "Running" ELSE status)

RECURSIVE GetPodSummary(_)
GetPodSummary(pods) ==
    IF pods = <<>> THEN NoPods
    ELSE CountPod(GetPodSummary(SubSeq(pods, 1, Len(pods) - 1)), pods[Len(pods)])

Resps == {"ok", "err", "hang"}

\* what the environment may answer to a call that reaches the network
Answers == {r \in Resps : r = "ok" \/ faults < MaxFaults}

DbAnswers == {ok \in BOOLEAN : ok \/ faults < MaxFaults}

Expired == now >= deadline

\* GetNodes / GetPods: no client, or a List call bound by ctx alone
K8sAnswers(c) == IF c \notin clients \/ Expired THEN {"none"} ELSE Answers

K8sCall(resp) ==
    [ok |-> resp = "ok", t |-> IF resp = "hang" THEN deadline ELSE now]

\* prom.CheckConnectivity: Query "up" under ctx cut to 5 s
NetAnswers == IF Expired THEN {"none"} ELSE Answers

PromCheck(resp) ==
    [ok |-> resp = "ok",
     t |-> IF resp = "hang" THEN Min({deadline, now + PromCheckTimeout}) ELSE now]

\* GetCPUUsage / GetMemoryUsage: Query under ctx and the client's 10 s timeout
PromQuery(resp) ==
    [ok |-> resp = "ok",
     t |-> IF resp = "hang" THEN Min({deadline, now + HTTPClientTimeout}) ELSE now]

Fault(resp) == IF resp \in {"err", "hang"} THEN 1 ELSE 0

Cur == configs[idx].name

NoAlert == [id |-> 0, cluster |-> "", severity |-> "", message |-> [kind |-> "", val |-> 0],
            ts |-> 0, resolved |-> FALSE]

Entry(op, c, resp, ok, arg) ==
    [op |-> op, cluster |-> c, resp |-> resp, ok |-> ok, arg |-> arg]

-----------------------------------------------------------------------------
(* checkAndCreateAlerts *)

NewAlert(c, severity, kind, val) ==
    [NoAlert EXCEPT !.cluster = c, !.severity = severity,
                    !.message = [kind |-> kind, val |-> val]]

CpuAlerts(c, cpuUsage) ==
    IF cpuUsage > CPUCritical THEN <<NewAlert(c, "Critical", "cpu critically high", cpuUsage)>>
    ELSE IF cpuUsage > CPUWarning THEN <<NewAlert(c, "Warning", "cpu elevated", cpuUsage)>>
    ELSE <<>>

MemAlerts(c, memUsage) ==
    IF memUsage > MemCritical THEN <<NewAlert(c, "Critical", "memory critically high", memUsage)>>
    ELSE IF memUsage > MemWarning THEN <<NewAlert(c, "Warning", "memory elevated", memUsage)>>
    ELSE <<>>

PodAlertsCritical(c, failedPods) ==
    IF failedPods > 0 THEN <<NewAlert(c, "Critical", "pods failed", failedPods)>>
    ELSE <<>>

PodAlerts(c, failedPods) ==
    IF failedPods > 0 THEN <<NewAlert(c, "Warning", "pods failed", failedPods)>>
    ELSE <<>>

CpuKinds == {"cpu critically high", "cpu elevated"}
MemKinds == {"memory critically high", "memory elevated"}
PodKinds == {"pods failed"}

\* the alerts one call writes, in the order it writes them
AlertsForInclusive(c, cpuUsage, memUsage, failedPods) ==
    (IF cpuUsage >= CPUCritical THEN <<NewAlert(c, "Critical", "cpu critically high", cpuUsage)>>
     ELSE IF cpuUsage >= CPUWarning THEN <<NewAlert(c, "Warning", "cpu elevated", cpuUsage)>>
     ELSE <<>>)
    \o MemAlerts(c, memUsage) \o PodAlerts(c, failedPods)

AlertsForDeduplicated(c, cpuUsage, memUsage, failedPods) ==
    SelectSeq(CpuAlerts(c, cpuUsage) \o MemAlerts(c, memUsage) \o PodAlerts(c, failedPods),
              LAMBDA a : ~\E r \in alerts :
                  r.cluster = c /\ ~r.resolved /\ r.message.kind = a.message.kind)

AlertsFor(c, cpuUsage, memUsage, failedPods) ==
    CpuAlerts(c, cpuUsage) \o MemAlerts(c, memUsage) \o PodAlerts(c, failedPods)

\* SaveAlert for each, one after the other; a failed write is logged and the
\* next one is still made
RECURSIVE WriteAlerts(_, _, _, _)
WriteAlerts(rows, writes, oks, t) ==
    IF writes = <<>> THEN [rows |-> rows, entries |-> <<>>]
    ELSE LET out == SaveAlert(rows, Head(writes), t, Head(oks))
             rest == WriteAlerts(out.rows, Tail(writes), Tail(oks), t)
         IN  [rows |-> rest.rows,
              entries |-> <<Entry("SaveAlert", Head(writes).cluster, "none",
                                  ~out.err, Head(writes))>> \o rest.entries]

Failures(oks) == Cardinality({i \in DOMAIN oks : ~oks[i]})

-----------------------------------------------------------------------------
(* The collector: startMetricsCollector and collectMetrics *)

\* time passes while the goroutine is blocked in select with both channels
\* empty, up to the next tick of either ticker
Wait ==
    /\ pc = "select" /\ ~tickC /\ ~cleanC
    /\ cycles < MaxCycles
    /\ LET t == Min({nextTick, nextClean})
       IN  /\ now' = t
           /\ tickC' = (nextTick = t)
           /\ cleanC' = (nextClean = t)
           /\ nextTick' = IF nextTick = t THEN t + CollectInterval ELSE nextTick
           /\ nextClean' = IF nextClean = t THEN t + CleanupInterval ELSE nextClean
    /\ UNCHANGED <<registryVars, loopVars, histVars, classifyVars, snapshots, alerts, ret>>

\* case <-ticker.C: collectMetrics; it returns at once when k8s is nil
CollectStart ==
    /\ pc = "select" /\ tickC
    /\ tickC' = FALSE
    /\ cycles' = cycles + 1
    /\ log' = <<>>
    /\ IF k8sNil
       THEN UNCHANGED <<pc, idx, deadline>>
       ELSE pc' = "loop" /\ idx' = 1 /\ deadline' = now + CollectTimeout
    /\ UNCHANGED <<registryVars, now, cleanC, nextTick, nextClean, snapshot, failed,
                   snapshots, alerts, faults, ret, classifyVars>>

\* case <-cleanupTicker.C: CleanupOldSnapshots(24h); an error is logged
CleanupOwnGoroutine ==
    /\ cleanC
    /\ cleanC' = FALSE
    /\ \E dbOk \in DbAnswers :
          LET out == CleanupOldSnapshots(snapshots, RetentionWindow, now, dbOk)
          IN  /\ snapshots' = out.rows
              /\ faults' = faults + (IF dbOk THEN 0 ELSE 1)
              /\ ret' = [op |-> "CleanupOldSnapshots", id |-> 0, err |-> out.err, at |-> now]
    /\ UNCHANGED <<registryVars, now, tickC, nextTick, nextClean, loopVars, alerts,
                   log, cycles, classifyVars>>

Cleanup ==
    /\ pc = "select" /\ cleanC
    /\ cleanC' = FALSE
    /\ \E dbOk \in DbAnswers :
          LET out == CleanupOldSnapshots(snapshots, RetentionWindow, now, dbOk)
          IN  /\ snapshots' = out.rows
              /\ faults' = faults + (IF dbOk THEN 0 ELSE 1)
              /\ ret' = [op |-> "CleanupOldSnapshots", id |-> 0, err |-> out.err, at |-> now]
    /\ UNCHANGED <<registryVars, now, tickC, nextTick, nextClean, loopVars, alerts,
                   log, cycles, classifyVars>>

\* the range loop is past the last config: collectMetrics returns
LoopDone ==
    /\ pc = "loop" /\ idx > Len(configs)
    /\ pc' = "return"
    /\ UNCHANGED <<registryVars, now, timerVars, idx, deadline, snapshot, failed,
                   snapshots, alerts, histVars, ret, classifyVars>>

\* defer cancel(); back to the select
CollectReturn ==
    /\ pc = "return"
    /\ pc' = "select"
    /\ UNCHANGED <<registryVars, now, timerVars, idx, deadline, snapshot, failed,
                   snapshots, alerts, histVars, ret, classifyVars>>

\* if !cfg.Enabled { continue }
IsEnabledAlways(cfg) == TRUE

IsEnabled(cfg) == cfg.enabled

SkipDisabled ==
    /\ pc = "loop" /\ idx <= Len(configs) /\ ~IsEnabled(configs[idx])
    /\ idx' = idx + 1
    /\ UNCHANGED <<registryVars, now, timerVars, pc, deadline, snapshot, failed,
                   snapshots, alerts, histVars, ret, classifyVars>>

\* snapshot := &models.MetricSnapshot{Cluster: cfg.Name}; var failed int
NewSnapshotOfFirst(c) == [NoSnapshot EXCEPT !.cluster = configs[1].name]

NewSnapshotCarriedOver(c) == [snapshot EXCEPT !.cluster = c, !.id = 0, !.ts = 0]

NewSnapshot(c) == [NoSnapshot EXCEPT !.cluster = c]

BeginCluster ==
    /\ pc = "loop" /\ idx <= Len(configs) /\ IsEnabled(configs[idx])
    /\ snapshot' = NewSnapshot(Cur)
    /\ failed' = 0
    /\ pc' = "nodes"
    /\ UNCHANGED <<registryVars, now, timerVars, idx, deadline, snapshots, alerts,
                   histVars, ret, classifyVars>>

\* where collectMetrics goes on after GetNodeCount: to the pod summary,
\* with or without an error
AfterNodeCountReturn(ok) == IF ok THEN "pods" ELSE "return"

AfterNodeCount(ok) == "pods"

\* if nodeCount, err := k8s.GetNodeCount(ctx, cfg.Name); err == nil { ... }
NodeCountStep ==
    /\ pc = "nodes"
    /\ \E resp \in K8sAnswers(Cur) :
          LET out == K8sCall(resp)
          IN  /\ snapshot' = IF out.ok THEN [snapshot EXCEPT !.nodes = TrueNodes[Cur]]
                                       ELSE snapshot
              /\ now' = out.t
              /\ faults' = faults + Fault(resp)
              /\ log' = Append(log, Entry("GetNodeCount", Cur, resp, out.ok, NoSnapshot))
              /\ pc' = AfterNodeCount(out.ok)
    /\ UNCHANGED <<registryVars, timerVars, idx, deadline, failed, snapshots, alerts,
                   cycles, ret, classifyVars>>

\* if _, _, failedPods, podCount, err := k8s.GetPodSummary(...); err == nil { ... }
PodSummaryStep ==
    /\ pc = "pods"
    /\ \E resp \in K8sAnswers(Cur) :
          LET out == K8sCall(resp)
              sum == GetPodSummary(TruePods[Cur])
          IN  /\ snapshot' = IF out.ok THEN [snapshot EXCEPT !.pods = sum.total]
                                       ELSE snapshot
              /\ failed' = IF out.ok THEN sum.failed ELSE failed
              /\ now' = out.t
              /\ faults' = faults + Fault(resp)
              /\ log' = Append(log, Entry("GetPodSummary", Cur, resp, out.ok, NoSnapshot))
    /\ pc' = "prom"
    /\ UNCHANGED <<registryVars, timerVars, idx, deadline, snapshots, alerts,
                   cycles, ret, classifyVars>>

\* if prom.CheckConnectivity(ctx, cfg.PrometheusURL) { ... }
PromCheckStep ==
    /\ pc = "prom"
    /\ \E resp \in NetAnswers :
          LET out == PromCheck(resp)
          IN  /\ now' = out.t
              /\ faults' = faults + Fault(resp)
              /\ log' = Append(log, Entry("CheckConnectivity", Cur, resp, out.ok, NoSnapshot))
              /\ pc' = IF out.ok THEN "cpu" ELSE "save"
    /\ UNCHANGED <<registryVars, timerVars, idx, deadline, snapshot, failed, snapshots,
                   alerts, cycles, ret, classifyVars>>

\* if cpu, err := prom.GetCPUUsage(...); err == nil { snapshot.CPUUsage = cpu }
CpuStep ==
    /\ pc = "cpu"
    /\ \E resp \in NetAnswers :
          LET out == PromQuery(resp)
          IN  /\ snapshot' = IF out.ok THEN [snapshot EXCEPT !.cpu = TrueCpu[Cur]]
                                       ELSE snapshot
              /\ now' = out.t
              /\ faults' = faults + Fault(resp)
              /\ log' = Append(log, Entry("GetCPUUsage", Cur, resp, out.ok, NoSnapshot))
    /\ pc' = "mem"
    /\ UNCHANGED <<registryVars, timerVars, idx, deadline, failed, snapshots, alerts,
                   cycles, ret, classifyVars>>

\* if mem, err := prom.GetMemoryUsage(...); err == nil { snapshot.MemoryUsage = mem }
MemStep ==
    /\ pc = "mem"
    /\ \E resp \in NetAnswers :
          LET out == PromQuery(resp)
          IN  /\ snapshot' = IF out.ok THEN [snapshot EXCEPT !.mem = TrueMem[Cur]]
                                       ELSE snapshot
              /\ now' = out.t
              /\ faults' = faults + Fault(resp)
              /\ log' = Append(log, Entry("GetMemoryUsage", Cur, resp, out.ok, NoSnapshot))
    /\ pc' = "save"
    /\ UNCHANGED <<registryVars, timerVars, idx, deadline, failed, snapshots, alerts,
                   cycles, ret, classifyVars>>

\* where collectMetrics goes on after SaveSnapshot: an error is logged
AfterSaveFatal(err) == IF err THEN "crashed" ELSE "alerts"

AfterSaveSkipsAlerts(err) == IF err THEN "loop" ELSE "alerts"

AfterSave(err) == "alerts"

\* if err := metricsStore.SaveSnapshot(snapshot); err != nil { log.Printf(...) }
SaveStep ==
    /\ pc = "save"
    /\ \E dbOk \in DbAnswers :
          LET out == SaveSnapshot(snapshots, snapshot, now, dbOk)
          IN  /\ snapshots' = out.rows
              /\ snapshot' = [snapshot EXCEPT !.ts = now, !.id = out.id]
              /\ faults' = faults + (IF dbOk THEN 0 ELSE 1)
              /\ ret' = [op |-> "SaveSnapshot", id |-> out.id, err |-> out.err, at |-> now]
              /\ log' = Append(log, Entry("SaveSnapshot", Cur, "none", ~out.err,
                                          [snapshot EXCEPT !.ts = now]))
              /\ pc' = AfterSave(out.err)
    /\ UNCHANGED <<registryVars, now, timerVars, idx, deadline, failed, alerts,
                   cycles, classifyVars>>

\* checkAndCreateAlerts(metricsStore, cfg.Name, snapshot.CPUUsage,
\*                      snapshot.MemoryUsage, failed); then the next cluster
AlertsStep ==
    /\ pc = "alerts"
    /\ LET writes == AlertsFor(Cur, snapshot.cpu, snapshot.mem, failed)
       IN  \E oks \in [1 .. Len(writes) -> BOOLEAN] :
              /\ faults + Failures(oks) <= MaxFaults
              /\ LET out == WriteAlerts(alerts, writes, oks, now)
                 IN  /\ alerts' = out.rows
                     /\ log' = log \o out.entries
              /\ faults' = faults + Failures(oks)
    /\ idx' = idx + 1
    /\ pc' = "loop"
    /\ UNCHANGED <<registryVars, now, timerVars, deadline, snapshot, failed, snapshots,
                   cycles, ret, classifyVars>>

Next ==
    \/ Wait \/ CollectStart \/ Cleanup
    \/ SkipDisabled \/ BeginCluster \/ LoopDone \/ CollectReturn
    \/ NodeCountStep \/ PodSummaryStep \/ PromCheckStep \/ CpuStep \/ MemStep
    \/ SaveStep \/ AlertsStep

(* The state after construction: what NewKubernetesService left in the     *)
(* registry, and what the database file holds.                             *)

Cfg(name, enabled) == [name |-> name, enabled |-> enabled]

\* k8sService, as [nil, configs, clients]
Registries ==
    {[nil |-> TRUE, configs |-> <<>>, clients |-> {}]}
    \cup {[nil |-> FALSE, configs |-> <<Cfg("a", TRUE), Cfg("b", TRUE)>>, clients |-> cs] :
             cs \in {{"a", "b"}, {"a"}, {"b"}, {}}}
    \cup {[nil |-> FALSE, configs |-> <<Cfg("a", TRUE), Cfg("b", FALSE)>>, clients |-> {"a"}],
          [nil |-> FALSE, configs |-> <<Cfg("a", FALSE), Cfg("b", TRUE)>>, clients |-> {"b"}]}

\* rows an earlier run of the process left in the database file: a snapshot
\* older than the retention window at the first cleanup tick, one exactly on
\* its boundary, and an unresolved CPU alert
OldSnapshots ==
    {[NoSnapshot EXCEPT !.id = 1, !.cluster = "a", !.nodes = 3,
                        !.ts = CleanupInterval - RetentionWindow - 1],
     [NoSnapshot EXCEPT !.id = 2, !.cluster = "b", !.nodes = 2,
                        !.ts = CleanupInterval - RetentionWindow]}

OldAlerts ==
    {[NewAlert("a", "Critical", "cpu critically high", 96) EXCEPT
          !.id = 1, !.ts = CleanupInterval - RetentionWindow]}

\* a first start on an empty database
FreshStart ==
    /\ now = 0 /\ nextTick = CollectInterval /\ nextClean = CleanupInterval
    /\ snapshots = {} /\ alerts = {}
    /\ \E r \in Registries :
          k8sNil = r.nil /\ configs = r.configs /\ clients = r.clients

\* the process one collection interval before its first cleanup tick, on a
\* database that holds only rows of an earlier run
WarmStart ==
    /\ now = CleanupInterval - CollectInterval
    /\ nextTick = CleanupInterval /\ nextClean = CleanupInterval
    /\ snapshots = OldSnapshots /\ alerts = OldAlerts
    /\ k8sNil = FALSE
    /\ configs = <<Cfg("a", TRUE), Cfg("b", FALSE)>>
    /\ clients = {"a"}

Init == IdleCollector /\ (FreshStart \/ WarmStart)

Spec == Init /\ [][Next]_vars

-----------------------------------------------------------------------------
(* The threshold evaluation on its own: the collector about to save the    *)
(* snapshot of a cluster, with any gathered values.                        *)

InitAlerts ==
    /\ k8sNil = FALSE /\ configs = <<Cfg("a", TRUE)>> /\ clients = {"a"}
    /\ now = CollectInterval /\ nextTick = 2 * CollectInterval /\ nextClean = CleanupInterval
    /\ tickC = FALSE /\ cleanC = FALSE
    /\ pc = "save" /\ idx = 1 /\ deadline = now + CollectTimeout
    /\ \E cpuUsage \in PctSamples, memUsage \in PctSamples :
          snapshot = [NewSnapshot("a") EXCEPT !.cpu = cpuUsage, !.mem = memUsage,
                                              !.nodes = 3, !.pods = 3]
    /\ failed \in FailedSamples
    /\ snapshots = {}
    /\ alerts \in {{}, OldAlerts}
    /\ log = <<>> /\ cycles = 1 /\ faults = 0
    /\ ret = NoRet /\ req = NoReq /\ tier = "" /\ main = AtQuit

NextAlerts == SaveStep \/ AlertsStep

SpecAlerts == InitAlerts /\ [][NextAlerts]_vars

-----------------------------------------------------------------------------
(* Claims about the collector *)

EnabledNames == {configs[i].name : i \in {j \in DOMAIN configs : configs[j].enabled}}

DisabledNames == {configs[i].name : i \in {j \in DOMAIN configs : ~configs[j].enabled}}

\* collectMetrics has returned
CycleOver == pc = "select" /\ cycles > 0

EntriesOf(c, ops) == {i \in DOMAIN log : log[i].cluster = c /\ log[i].op \in ops}

FailedCall(c, ops) == \E i \in EntriesOf(c, ops) : ~log[i].ok

Inventory == {"GetNodeCount", "GetPodSummary"}

InventoryOk(c) ==
    /\ \E i \in EntriesOf(c, {"GetNodeCount"}) : log[i].ok
    /\ \E i \in EntriesOf(c, {"GetPodSummary"}) : log[i].ok

Stored(e) == \E r \in snapshots : r = [e.arg EXCEPT !.id = r.id]

\* C1: in every collection cycle exactly one snapshot append is attempted for
\* every enabled cluster of the configuration, whichever of its node-count,
\* pod-summary and metrics calls failed, and none for a disabled cluster.
C1_OneAppendPerEnabledCluster ==
    /\ \A c \in Clusters : Cardinality(EntriesOf(c, {"SaveSnapshot"})) <= 1
    /\ \A c \in Clusters \ EnabledNames : EntriesOf(c, {"SaveSnapshot"}) = {}
    /\ \A i \in EntriesOf("a", {"SaveSnapshot"}) \cup EntriesOf("b", {"SaveSnapshot"}) :
          /\ log[i].arg.cluster = log[i].cluster
          /\ log[i].ok => Stored(log[i])
    /\ CycleOver =>
          \A c \in EnabledNames : Cardinality(EntriesOf(c, {"SaveSnapshot"})) = 1

\* a cycle is over in which the node count, the pod summary and the metrics
\* check of a cluster all failed, and its snapshot was appended
C1_Witness ==
    /\ CycleOver
    /\ \E c \in EnabledNames :
          /\ FailedCall(c, {"GetNodeCount"})
          /\ FailedCall(c, {"GetPodSummary"})
          /\ FailedCall(c, {"CheckConnectivity"})
          /\ \E i \in EntriesOf(c, {"SaveSnapshot"}) : log[i].ok /\ Stored(log[i])

\* C2: when the inventory call of cluster A fails in a cycle, every other
\* enabled cluster B, before or after A in the configuration, still gets its
\* snapshot write in that cycle, and when B's own inventory calls succeeded
\* the write carries B's name, node count and pod count.
C2_FailureIsolation ==
    CycleOver =>
        \A A \in EnabledNames, B \in EnabledNames :
            (A # B /\ FailedCall(A, Inventory)) =>
                /\ Cardinality(EntriesOf(B, {"SaveSnapshot"})) = 1
                /\ \A i \in EntriesOf(B, {"SaveSnapshot"}) :
                      InventoryOk(B) =>
                          /\ log[i].arg.cluster = B
                          /\ log[i].arg.nodes = TrueNodes[B]
                          /\ log[i].arg.pods = Len(TruePods[B])
                          /\ log[i].ok => Stored(log[i])

\* the first cluster's inventory failed and the second one's snapshot, with
\* its own counts, is in the table
C2_Witness ==
    /\ CycleOver
    /\ configs = <<Cfg("a", TRUE), Cfg("b", TRUE)>>
    /\ FailedCall("a", Inventory) /\ InventoryOk("b")
    /\ \E r \in snapshots :
          r.cluster = "b" /\ r.nodes = TrueNodes["b"] /\ r.pods = Len(TruePods["b"]) /\ r.ts = now

\* C3: a probe of one cluster that runs into its deadline does not cancel
\* the probes of the others: a cluster with a client none of whose calls in
\* the cycle met a failing backend gets a snapshot with its real node count,
\* pod count and percentages.
C3_LaterClusterUnaffected ==
    CycleOver =>
        \A B \in EnabledNames \cap clients :
            (\A i \in DOMAIN log : log[i].cluster = B => log[i].resp \notin {"err", "hang"}) =>
                \E i \in EntriesOf(B, {"SaveSnapshot"}) :
                    /\ log[i].arg.nodes = TrueNodes[B]
                    /\ log[i].arg.pods = Len(TruePods[B])
                    /\ log[i].arg.cpu = TrueCpu[B]
                    /\ log[i].arg.mem = TrueMem[B]

AlertEntries(kinds) ==
    {i \in DOMAIN log : log[i].op = "SaveAlert" /\ log[i].arg.message.kind \in kinds}

Severities(kinds) == {log[i].arg.severity : i \in AlertEntries(kinds)}

\* C4: after the snapshot of a cluster the thresholds are evaluated one by
\* one, at most one alert per kind: cpu > 95 Critical, else cpu > 80 Warning;
\* mem > 95 Critical, else mem > 80 Warning; failed pods > 0 Warning; nothing
\* at or below a threshold.
C4_ThresholdsIndependent ==
    (pc = "loop") =>
        /\ log[1].op = "SaveSnapshot"
        /\ \A i \in DOMAIN log : i > 1 =>
              /\ log[i].op = "SaveAlert"
              /\ log[i].arg.cluster = snapshot.cluster
              /\ log[i].arg.resolved = FALSE /\ log[i].arg.id = 0
              /\ log[i].ok => \E r \in alerts :
                                  r = [log[i].arg EXCEPT !.id = r.id, !.ts = now]
        /\ Len(log) - 1 = Cardinality(AlertEntries(CpuKinds))
                          + Cardinality(AlertEntries(MemKinds))
                          + Cardinality(AlertEntries(PodKinds))
        /\ Cardinality(AlertEntries(CpuKinds)) = (IF snapshot.cpu > 80 THEN 1 ELSE 0)
        /\ Severities(CpuKinds) = (IF snapshot.cpu > 95 THEN {"Critical"}
                                   ELSE IF snapshot.cpu > 80 THEN {"Warning"} ELSE {})
        /\ Cardinality(AlertEntries(MemKinds)) = (IF snapshot.mem > 80 THEN 1 ELSE 0)
        /\ Severities(MemKinds) = (IF snapshot.mem > 95 THEN {"Critical"}
                                   ELSE IF snapshot.mem > 80 THEN {"Warning"} ELSE {})
        /\ Cardinality(AlertEntries(PodKinds)) = (IF failed > 0 THEN 1 ELSE 0)
        /\ Severities(PodKinds) = (IF failed > 0 THEN {"Warning"} ELSE {})
        /\ \A i \in AlertEntries(CpuKinds) : log[i].arg.message.val = snapshot.cpu
        /\ \A i \in AlertEntries(MemKinds) : log[i].arg.message.val = snapshot.mem
        /\ \A i \in AlertEntries(PodKinds) : log[i].arg.message.val = failed

\* cpu exactly 95 raised a Warning, memory 96 a Critical, no pod failed: two
\* alerts stored
C4_Witness ==
    /\ pc = "loop"
    /\ snapshot.cpu = 95 /\ snapshot.mem = 96 /\ failed = 0
    /\ Severities(CpuKinds) = {"Warning"} /\ Severities(MemKinds) = {"Critical"}
    /\ Cardinality({r \in alerts : r.ts = now}) = 2

CpuAlertRows(rows, c) == {r \in rows : r.cluster = c /\ r.message.kind \in CpuKinds}

\* C5: no deduplication.  Whenever the thresholds are evaluated with cpu
\* above the Warning threshold and the writes succeed, one more CPU alert of
\* that cluster is stored, whatever alerts it has already; so after n cycles
\* without a failure each enabled cluster with a client, all of CPU above
\* the threshold, has n CPU alerts of this run.
C5_NoDeduplication ==
    /\ [][(pc = "alerts" /\ pc' = "loop" /\ snapshot.cpu > CPUWarning /\ faults' = faults) =>
              /\ CpuAlertRows(alerts, Cur) \subseteq CpuAlertRows(alerts', Cur)
              /\ Cardinality(CpuAlertRows(alerts', Cur)) =
                     Cardinality(CpuAlertRows(alerts, Cur)) + 1
              /\ \A r \in CpuAlertRows(alerts', Cur) \ CpuAlertRows(alerts, Cur) :
                     r.ts = now /\ ~r.resolved]_vars
    /\ [](CycleOver /\ faults = 0 =>
              \A c \in EnabledNames \cap clients :
                  Cardinality({r \in CpuAlertRows(alerts, c) : r.ts > 0}) = cycles)

\* two cycles in a row left two unresolved CPU alerts of one cluster
C5_Witness ==
    /\ CycleOver /\ cycles = 2
    /\ \E r, q \in CpuAlertRows(alerts, "a") :
          /\ ~r.resolved /\ ~q.resolved
          /\ r.ts > 0 /\ q.ts = r.ts + CollectInterval

-----------------------------------------------------------------------------
(* Claims about pruning and the life of an alert *)

\* C11: prune(window) deletes exactly the snapshots, of every cluster, with a
\* timestamp strictly older than now - window and keeps those at or after
\* that boundary; pruning again with the same cutoff deletes nothing more; a
\* prune that fails deletes nothing.
C11_PruneExact ==
    /\ [](\A w \in Windows :
              LET out == CleanupOldSnapshots(snapshots, w, now, TRUE)
              IN  /\ ~out.err
                  /\ out.rows = {r \in snapshots : r.ts >= now - w}
                  /\ snapshots \ out.rows = {r \in snapshots : r.ts < now - w}
                  /\ CleanupOldSnapshots(out.rows, w, now, TRUE) = out
                  /\ CleanupOldSnapshots(snapshots, w, now, FALSE).rows = snapshots)
    /\ [][(ret'.op = "CleanupOldSnapshots" /\ snapshots' # snapshots) =>
              /\ ~ret'.err
              /\ \E w \in Windows :
                    /\ snapshots' = {r \in snapshots : r.ts >= now - w}
                    /\ \E r \in snapshots : r.ts < now - w]_vars

\* a prune has run and left in the table an entry of each cluster, one of
\* them exactly on the boundary of a window that has nothing older left
C11_Witness ==
    /\ ret.op = "CleanupOldSnapshots" /\ ~ret.err /\ ret.at = now
    /\ \E r, q \in snapshots :
          /\ r.cluster # q.cluster
          /\ r.ts = now - 1 /\ q.ts = now
    /\ \A r \in snapshots : r.ts >= now - 1
    /\ \E r \in snapshots : r.id = 3

\* ids an operator may ask to resolve while the collector runs
OperatorIds == {1, 2}

\* a caller of the store resolves an alert while the collector goroutine is
\* wherever it is
OperatorResolve ==
    /\ \E id \in OperatorIds, dbOk \in DbAnswers :
          LET out == ResolveAlert(alerts, id, dbOk)
          IN  /\ alerts' = out.rows
              /\ faults' = faults + (IF dbOk THEN 0 ELSE 1)
              /\ ret' = [op |-> "ResolveAlert", id |-> id, err |-> out.err, at |-> now]
    /\ UNCHANGED <<registryVars, now, timerVars, loopVars, snapshots, log, cycles,
                   classifyVars>>

NextOperated == Next \/ OperatorResolve

SpecOperated == Init /\ [][NextOperated]_vars

SameButResolved(r, q) == q = [r EXCEPT !.resolved = q.resolved]

\* C12: alerts are never deleted and are changed only by resolve: over any
\* sequence of collection ticks, retention ticks and resolve calls every
\* stored alert stays stored with its id, cluster, severity, message and
\* timestamp, a resolved alert stays resolved, only a resolve call sets the
\* flag, and a retention tick leaves the alerts as they are.
C12_AlertsAppendOnly ==
    [][/\ \A r \in alerts : \E q \in alerts' :
              /\ q.id = r.id /\ SameButResolved(r, q)
              /\ (r.resolved => q.resolved)
              /\ (q.resolved # r.resolved => ret'.op = "ResolveAlert" /\ ret'.id = r.id)
       /\ \A q, k \in alerts' : q.id = k.id => q = k
       /\ (cleanC /\ ~cleanC') => alerts' = alerts]_vars

\* the alert an earlier run left was resolved, the retention tick has pruned
\* a snapshot, and the collector has stored a new alert beside it
C12_Witness ==
    /\ \E r \in alerts : r.id = 1 /\ r.resolved /\ r.ts < 0
    /\ \E q \in alerts : q.id # 1 /\ ~q.resolved /\ q.ts > 0
    /\ Cardinality(snapshots \cap OldSnapshots) = 1
    /\ CycleOver

-----------------------------------------------------------------------------
(* Startup: NewKubernetesService (loadConfigs, initializeClients) and the   *)
(* part of main that follows it.                                            *)

\* entries the configuration file may list
MaxConfigs == 2

ConfigEntries == {Cfg(n, e) : n \in Clusters, e \in BOOLEAN}

RECURSIVE SeqsUpTo(_, _)
SeqsUpTo(S, n) ==
    IF n = 0 THEN {<<>>}
    ELSE LET shorter == SeqsUpTo(S, n - 1)
         IN  shorter \cup {Append(q, x) : q \in shorter, x \in S}

\* what os.ReadFile and yaml.Unmarshal make of the file
ConfigFiles ==
    {[status |-> st, entries |-> <<>>] : st \in {"missing", "malformed"}}
    \cup {[status |-> "ok", entries |-> q] : q \in SeqsUpTo(ConfigEntries, MaxConfigs)}

\* ClientConfig() and kubernetes.NewForConfig for one cluster
CreateAnswers == {"ok", "config error", "clientset error"}

LookupNames == Clusters \cup {"zz"}

InitStartup ==
    /\ IdleCollector!2 /\ IdleCollector!3 /\ IdleCollector!4 /\ IdleCollector!5
    /\ pc = "new" /\ idx = 0 /\ deadline = 0
    /\ k8sNil = TRUE /\ configs = <<>> /\ clients = {}
    /\ now = 0 /\ nextTick = CollectInterval /\ nextClean = CleanupInterval
    /\ snapshots = {} /\ alerts = {}

startupFrame == <<now, timerVars, deadline, snapshot, failed, snapshots, alerts,
                  cycles, faults, ret>>

\* loadConfigs: an error makes NewKubernetesService return nil and the
\* error, which main logs as a warning before it goes on
LoadConfigs ==
    /\ pc = "new"
    /\ \E f \in ConfigFiles :
          IF f.status # "ok"
          THEN /\ pc' = "main"
               /\ log' = Append(log, Entry("loadConfigs", "", f.status, FALSE, 0))
               /\ UNCHANGED <<configs, idx>>
          ELSE /\ configs' = f.entries
               /\ pc' = "clients" /\ idx' = 1
               /\ log' = Append(log, Entry("loadConfigs", "", "ok", TRUE, 0))
    /\ UNCHANGED <<k8sNil, clients, startupFrame, classifyVars>>

\* if !clusterCfg.Enabled { continue }
ClientSkip ==
    /\ pc = "clients" /\ idx <= Len(configs) /\ ~configs[idx].enabled
    /\ idx' = idx + 1
    /\ UNCHANGED <<registryVars, pc, log, startupFrame, classifyVars>>

\* where the loop of initializeClients goes on after one cluster
NextClientAbort(ok, i) == IF ok THEN i + 1 ELSE Len(configs) + 1

NextClient(ok, i) == i + 1

\* the client config and the clientset of one enabled cluster; on either
\* error a warning is printed and the loop continues
ClientCreate ==
    /\ pc = "clients" /\ idx <= Len(configs) /\ configs[idx].enabled
    /\ \E resp \in CreateAnswers :
          /\ clients' = IF resp = "ok" THEN clients \cup {Cur} ELSE clients
          /\ log' = Append(log, Entry("NewForConfig", Cur, resp, resp = "ok", idx))
          /\ idx' = NextClient(resp = "ok", idx)
    /\ UNCHANGED <<k8sNil, configs, pc, startupFrame, classifyVars>>

\* initializeClients returns nil; NewKubernetesService returns the service
ClientsDone ==
    /\ pc = "clients" /\ idx > Len(configs)
    /\ k8sNil' = FALSE
    /\ pc' = "main"
    /\ UNCHANGED <<configs, clients, idx, log, startupFrame, classifyVars>>

\* main after NewKubernetesService: the store is opened (log.Fatalf on an
\* error), the handlers and routes are set up, the HTTP server and the
\* collector goroutine are started
StartServing ==
    /\ pc = "main"
    /\ \E dbOk \in BOOLEAN : pc' = IF dbOk THEN "select" ELSE "exited"
    /\ UNCHANGED <<registryVars, idx, log, startupFrame, classifyVars>>

\* GetClient(clusterName)
GetClient(clusterName) == clusterName \in clients

CallGetClient ==
    /\ pc = "select" /\ ~k8sNil
    /\ \E n \in LookupNames :
          /\ req' = [name |-> n]
          /\ tier' = IF GetClient(n) THEN "found" ELSE "not found"
    /\ UNCHANGED <<registryVars, pc, idx, log, startupFrame, main>>

NextStartup ==
    \/ LoadConfigs \/ ClientSkip \/ ClientCreate \/ ClientsDone
    \/ StartServing \/ CallGetClient

SpecStartup == InitStartup /\ [][NextStartup]_vars

Attempts == {i \in DOMAIN log : log[i].op = "NewForConfig"}

\* C13: after initialisation the client map holds a client for exactly the
\* enabled clusters whose client creation succeeded; creation is attempted
\* for every enabled entry whatever failed before it, a failure removes no
\* client; client(name) finds exactly the names in the map, so not a
\* disabled, failed or unknown cluster; the map does not change afterwards.
C13_RegistryIsolation ==
    /\ []((pc = "select" /\ ~k8sNil) =>
            /\ clients = {log[i].cluster : i \in {j \in Attempts : log[j].ok}}
            /\ {log[i].arg : i \in Attempts} = {i \in DOMAIN configs : configs[i].enabled}
            /\ Cardinality(Attempts) = Cardinality({i \in DOMAIN configs : configs[i].enabled})
            /\ \A i \in Attempts : log[i].cluster = configs[log[i].arg].name
            /\ clients \subseteq EnabledNames
            /\ tier # "" =>
                  /\ (tier = "found") = (req.name \in clients)
                  /\ (req.name \notin Clusters => tier = "not found")
                  /\ (req.name \notin EnabledNames => tier = "not found")
                  /\ ((\A i \in Attempts : log[i].cluster = req.name => ~log[i].ok)
                         => tier = "not found"))
    /\ [][/\ clients \subseteq clients'
          /\ (pc = "select" => clients' = clients)]_vars

\* the first cluster's client could not be created, the second one's was;
\* a lookup of the first finds nothing
C13_Witness ==
    /\ pc = "select" /\ ~k8sNil
    /\ configs = <<Cfg("a", TRUE), Cfg("b", TRUE)>>
    /\ clients = {"b"}
    /\ \E i \in Attempts : log[i].cluster = "a" /\ ~log[i].ok
    /\ tier = "not found" /\ req.name = "a"

ConfigFailed == \E i \in DOMAIN log : log[i].op = "loadConfigs" /\ ~log[i].ok

\* C14: a missing or malformed cluster configuration file is fatal at
\* startup: the process does not go on to serve the read APIs and run the
\* collector without a loaded configuration.
C14_ConfigErrorFatal == ConfigFailed => pc \notin {"select"}

-----------------------------------------------------------------------------
(* Claims about the retention tick *)

Kept(rows, t) == {r \in rows : r.ts >= t - RetentionWindow}

\* C15: on each retention tick, and only then, the collector calls prune
\* once, with the 24 h window; right after a retention tick whose prune
\* succeeded no stored snapshot is older than 24 h; nothing else, a
\* collection tick least of all, deletes a snapshot.
C15_RetentionPrune ==
    /\ [][/\ ~(snapshots \subseteq snapshots') => (cleanC /\ ~cleanC')
          /\ (cleanC /\ ~cleanC') =>
                /\ ret'.op = "CleanupOldSnapshots" /\ ret'.at = now
                /\ snapshots' = IF ret'.err THEN snapshots ELSE Kept(snapshots, now)
          /\ (ret'.op = "CleanupOldSnapshots" /\ ret' # ret) => (cleanC /\ ~cleanC')
          /\ (tickC /\ ~tickC') => snapshots' = snapshots]_vars
    /\ []((ret.op = "CleanupOldSnapshots" /\ ~ret.err /\ ret.at = now) =>
              \A r \in snapshots : r.ts >= now - RetentionWindow)

\* the first retention tick has removed the snapshot older than 24 h and
\* kept the one exactly 24 h old, beside a snapshot of this run
C15_Witness ==
    /\ ret.op = "CleanupOldSnapshots" /\ ~ret.err
    /\ snapshots \cap OldSnapshots = {r \in OldSnapshots : r.ts = now - RetentionWindow}
    /\ \E r \in snapshots : r.ts = now
    /\ Cardinality(snapshots) = 2

-----------------------------------------------------------------------------
(* formatAge *)

\* durations from 0 s up to this one are all tried
MaxShortAge == 61

Minute == 60
Hour == 3600
Day == 86400

AgeSamples ==
    (0 .. MaxShortAge)
    \cup {2 * Minute - 1, 2 * Minute, 15 * Minute, Hour - 1, Hour, Hour + 1,
          2 * Hour - 1, 5 * Hour, Day - 1, Day, Day + 1, 2 * Day - 1, 2 * Day, 3 * Day}

Label(n, unit) == [n |-> n, unit |-> unit]

\* formatAge for a duration of d whole seconds: duration.Hours() > 24,
\* duration.Hours() >= 1, duration.Minutes() >= 1 on the float64 values,
\* the number printed is the int() of the float
formatAge(d) ==
    IF d > 24 * Hour THEN Label(d \div Day, "d")
    ELSE IF d >= Hour THEN Label(d \div Hour, "h")
    ELSE IF d >= Minute THEN Label(d \div Minute, "m")
    ELSE Label(d, "s")

\* the process with nothing collected, before a read API makes its call
IdleReader ==
    /\ IdleCollector!1 /\ IdleCollector!2 /\ IdleCollector!3 /\ IdleCollector!4
    /\ ret = NoRet /\ tier = "" /\ main = AtQuit
    /\ k8sNil = TRUE /\ configs = <<>> /\ clients = {}
    /\ now = 0 /\ nextTick = CollectInterval /\ nextClean = CleanupInterval
    /\ snapshots = {} /\ alerts = {}

readerFrame == <<registryVars, timerVars, loopVars, histVars, now, snapshots, alerts, req,
                 main>>

Returned(op) == [NoRet EXCEPT !.op = op]

InitAge == IdleReader /\ req \in [d : AgeSamples]

\* GetNodes / GetPods fill the Age of a node or pod
CallFormatAge ==
    /\ ret = NoRet
    /\ tier' = formatAge(req.d)
    /\ ret' = Returned("formatAge")
    /\ UNCHANGED readerFrame

SpecAge == InitAge /\ [][CallFormatAge]_vars

\* C16: the age buckets are exclusive and cover every duration: d < 60 s a
\* seconds label, 60 s <= d < 1 h minutes, 1 h <= d < 24 h hours, d >= 24 h
\* days, exactly 24 h included ("1d"); the number is the whole count of the
\* unit.
C16_AgeBuckets ==
    ret.op = "formatAge" =>
        LET d == req.d
        IN  tier = (IF d < Minute THEN Label(d, "s")
                    ELSE IF d < Hour THEN Label(d \div Minute, "m")
                    ELSE IF d < Day THEN Label(d \div Hour, "h")
                    ELSE Label(d \div Day, "d"))

-----------------------------------------------------------------------------
(* extractFirstValue.  A sample value is a string over a small alphabet: two  *)
(* digits, the decimal point and a character that belongs to no number.       *)
(* Signs, exponents, hexadecimal digits, "NaN" and "Inf", which the scanner   *)
(* also accepts, are not in the alphabet.                                     *)

\* longest sample string
MaxStrLen == 3

Digits == {"4", "5"}

Chars == Digits \cup {".", "x"}

Strings == SeqsUpTo(Chars, MaxStrLen)

DigitVal(c) == IF c = "4" THEN 4 ELSE 5

RECURSIVE LeadingDigits(_)
LeadingDigits(str) ==
    IF str = <<>> \/ Head(str) \notin Digits THEN 0
    ELSE 1 + LeadingDigits(Tail(str))

\* a decimal number: mant / 10^scale
Decimal(mant, scale) == [mant |-> mant, scale |-> scale]

Zero == Decimal(0, 0)

RECURSIVE DigitsValue(_)
DigitsValue(ds) ==
    IF ds = <<>> THEN 0
    ELSE 10 * DigitsValue(SubSeq(ds, 1, Len(ds) - 1)) + DigitVal(ds[Len(ds)])

\* fmt's floatToken: the digits, then a point and the digits after it; the
\* scan stops at the first character that cannot go on the number
floatToken(str) ==
    LET n1 == LeadingDigits(str)
        rest == SubSeq(str, n1 + 1, Len(str))
        n2 == IF rest # <<>> /\ Head(rest) = "." THEN 1 + LeadingDigits(Tail(rest)) ELSE 0
    IN  SubSeq(str, 1, n1 + n2)

\* strconv.ParseFloat: the whole string must be digits with at most one
\* point and at least one digit
ParseFloat(str) ==
    LET n1 == LeadingDigits(str)
        rest == SubSeq(str, n1 + 1, Len(str))
        dot == rest # <<>> /\ Head(rest) = "."
        n2 == IF dot THEN LeadingDigits(Tail(rest)) ELSE 0
        used == n1 + (IF dot THEN 1 + n2 ELSE 0)
        frac == IF dot THEN SubSeq(rest, 2, 1 + n2) ELSE <<>>
    IN  IF used = Len(str) /\ n1 + n2 > 0
        THEN [ok |-> TRUE,
              value |-> Decimal(DigitsValue(SubSeq(str, 1, n1) \o frac), n2)]
        ELSE [ok |-> FALSE, value |-> Zero]

\* fmt.Sscanf(valueStr, "%f", &value): an empty input is an error; else the
\* token is converted, and what follows the token in the input is not looked at
Sscanf(str) ==
    IF str = <<>> THEN [ok |-> FALSE, value |-> Zero]
    ELSE ParseFloat(floatToken(str))

Elem(kind, chars) == [kind |-> kind, chars |-> chars]

Epoch == Elem("number", <<>>)

\* what the JSON of a sample may hold in second place
SecondElems == {Epoch, Elem("null", <<>>)} \cup {Elem("string", str) : str \in Strings}

ValueArrays ==
    {<<>>, <<Epoch>>, <<Epoch, Elem("string", <<"4">>), Epoch>>}
    \cup {<<Epoch, e>> : e \in SecondElems}

Sample(v) == [value |-> v]

ResultSets ==
    {<<>>}
    \cup {<<Sample(v)>> : v \in ValueArrays}
    \cup {<<Sample(v), Sample(w)>> :
             v \in ValueArrays, w \in {<<>>, <<Epoch, Elem("string", <<"5">>)>>}}

Extracted(value, err) == [value |-> value, err |-> err]

extractFirstValue(result) ==
    IF Len(result) = 0 THEN Extracted(Zero, "")
    ELSE IF Len(result[1].value) < 2 THEN Extracted(Zero, "unexpected result format")
    ELSE IF result[1].value[2].kind # "string" THEN Extracted(Zero, "unexpected value type")
    ELSE LET scan == Sscanf(result[1].value[2].chars)
         IN  IF ~scan.ok THEN Extracted(Zero, "failed to parse value")
             ELSE Extracted(scan.value, "")

InitExtract == IdleReader /\ req \in [result : ResultSets]

\* GetCPUUsage / GetMemoryUsage on the result of a successful Query
CallExtract ==
    /\ ret = NoRet
    /\ tier' = extractFirstValue(req.result)
    /\ ret' = Returned("extractFirstValue")
    /\ UNCHANGED readerFrame

SpecExtract == InitExtract /\ [][CallExtract]_vars

\* C17: an empty result set gives 0 and no error; a first result whose value
\* array has fewer than two elements, or whose second element is not a
\* string that is a number, gives an error and 0; a well-formed pair gives
\* the number; results after the first are ignored.
C17_ExtractScalar ==
    ret.op = "extractFirstValue" =>
        IF req.result = <<>> THEN tier = Extracted(Zero, "")
        ELSE LET v == req.result[1].value
             IN  IF Len(v) < 2 \/ v[2].kind # "string" \/ ~ParseFloat(v[2].chars).ok
                 THEN tier.err # "" /\ tier.value = Zero
                 ELSE tier = Extracted(ParseFloat(v[2].chars).value, "")

-----------------------------------------------------------------------------
(* GetPodSummary on any list of pods *)

\* longest pod list of which every filling is tried
MaxPods == 3

Phases == {"Running", "Pending", "Failed", "Succeeded", "Unknown"}

PodLists ==
    SeqsUpTo(Phases, MaxPods)
    \cup {<<"Running", "Running", "Pending", "Failed", "Running">>}

\* the call with its error: GetPods failed, or the pods it listed
PodSummaryResult(listed, pods) ==
    IF ~listed THEN [sum |-> NoPods, err |-> TRUE]
    ELSE [sum |-> GetPodSummary(pods), err |-> FALSE]

InitPods == IdleReader /\ req \in [pods : PodLists, listed : BOOLEAN]

CallPodSummary ==
    /\ ret = NoRet
    /\ tier' = PodSummaryResult(req.listed, req.pods)
    /\ ret' = Returned("GetPodSummary")
    /\ UNCHANGED readerFrame

SpecPods == InitPods /\ [][CallPodSummary]_vars

InPhase(pods, phase) == Cardinality({i \in DOMAIN pods : pods[i] = phase})

\* C18: for any list of pod phases, running, pending and failed are the
\* numbers of pods in phase Running, Pending and Failed, total is the number
\* of pods, and a pod in another phase counts toward total only, so running
\* + pending + failed <= total; on a listing error all four are 0 and the
\* error is returned.
C18_PodSummaryCounts ==
    ret.op = "GetPodSummary" =>
        IF ~req.listed THEN tier = [sum |-> NoPods, err |-> TRUE]
        ELSE /\ ~tier.err
             /\ tier.sum.running = InPhase(req.pods, "Running")
             /\ tier.sum.pending = InPhase(req.pods, "Pending")
             /\ tier.sum.failed = InPhase(req.pods, "Failed")
             /\ tier.sum.total = Len(req.pods)
             /\ tier.sum.running + tier.sum.pending + tier.sum.failed
                    = tier.sum.total - InPhase(req.pods, "Succeeded")
                                     - InPhase(req.pods, "Unknown")
             /\ tier.sum.running + tier.sum.pending + tier.sum.failed <= tier.sum.total
             /\ (req.pods = <<"Running", "Running", "Pending", "Failed", "Running">> =>
                    tier.sum = [running |-> 3, pending |-> 1, failed |-> 1, total |-> 5])

\* a list with a Succeeded and an Unknown pod beside a Running one: total 3,
\* running 1
C18_Witness ==
    /\ ret.op = "GetPodSummary"
    /\ req.listed
    /\ req.pods = <<"Succeeded", "Running", "Unknown">>
    /\ tier.sum = [running |-> 1, pending |-> 0, failed |-> 0, total |-> 3]

-----------------------------------------------------------------------------
(* Claims about failures inside one cluster's pass and in the store *)

Calls(c, op) == Cardinality(EntriesOf(c, {op}))

Succeeded(c, op) == \E i \in EntriesOf(c, {op}) : log[i].resp = "ok"

\* a call that was made with the deadline of the cycle already passed, so
\* that it failed without its backend being asked
CutOff(i) ==
    /\ log[i].resp = "none"
    /\ log[i].op \in {"GetNodeCount", "GetPodSummary", "CheckConnectivity",
                      "GetCPUUsage", "GetMemoryUsage"}
    /\ (log[i].op \in Inventory => log[i].cluster \in clients)

\* C19: a failure in one data category never blocks the other for the same
\* cluster: the node count, the pod summary and the metrics check are each
\* made once whatever failed before; when the check passes, the CPU and the
\* memory query are both issued; in the snapshot every field whose call
\* failed is 0 and every field whose call succeeded holds the value
\* obtained; and no call of a cluster is kept from its backend by an earlier
\* failed call of the same cluster.
C19_CategoriesIndependent ==
    \A c \in Clusters : \A k \in EntriesOf(c, {"SaveSnapshot"}) :
        /\ Calls(c, "GetNodeCount") = 1
        /\ Calls(c, "GetPodSummary") = 1
        /\ Calls(c, "CheckConnectivity") = 1
        /\ Calls(c, "GetCPUUsage") = (IF Succeeded(c, "CheckConnectivity") THEN 1 ELSE 0)
        /\ Calls(c, "GetMemoryUsage") = Calls(c, "GetCPUUsage")
        /\ log[k].arg.nodes = (IF Succeeded(c, "GetNodeCount") THEN TrueNodes[c] ELSE 0)
        /\ log[k].arg.pods = (IF Succeeded(c, "GetPodSummary") THEN Len(TruePods[c]) ELSE 0)
        /\ log[k].arg.cpu = (IF Succeeded(c, "GetCPUUsage") THEN TrueCpu[c] ELSE 0)
        /\ log[k].arg.mem = (IF Succeeded(c, "GetMemoryUsage") THEN TrueMem[c] ELSE 0)
        /\ \A i \in 1 .. k :
              (log[i].cluster = c /\ CutOff(i)) =>
                  ~\E j \in 1 .. (i - 1) :
                      log[j].cluster = c /\ log[j].resp \in {"err", "hang"}

\* the collector goroutine keeps running: a step that can be taken is taken
FairSpec == Spec /\ WF_vars(Next)

StoreFailed == \E i \in DOMAIN log : log[i].op \in {"SaveSnapshot", "SaveAlert"} /\ ~log[i].ok

FailedPodsSeen(c) ==
    IF Succeeded(c, "GetPodSummary") THEN GetPodSummary(TruePods[c]).failed ELSE 0

\* C20: a store failure never stops the collection loop.  A failed snapshot
\* append or alert write loses only that write: the alert writes of the
\* cluster are still all attempted, the remaining clusters of the cycle are
\* processed, and whatever failed the collector ends up back in its select
\* with every collection and retention tick of the run served.
C20_StoreFailureTolerated ==
    /\ []((CycleOver /\ StoreFailed) =>
            \A c \in EnabledNames :
                /\ Calls(c, "SaveSnapshot") = 1
                /\ \A k \in EntriesOf(c, {"SaveSnapshot"}) :
                      /\ Calls(c, "SaveAlert") =
                             Len(AlertsFor(c, log[k].arg.cpu, log[k].arg.mem, FailedPodsSeen(c)))
                      /\ log[k].ok => Stored(log[k])
                      /\ ~log[k].ok => ~\E r \in snapshots : r.cluster = c /\ r.ts = log[k].arg.ts)
    /\ <>[](pc = "select" /\ ~tickC /\ ~cleanC /\ cycles = MaxCycles)

\* the first cycle lost the snapshot of the first cluster to a store failure
\* and stored the second cluster's; the second cycle stored both
C20_Witness ==
    /\ CycleOver /\ cycles = 2 /\ faults = 1
    /\ configs = <<Cfg("a", TRUE), Cfg("b", TRUE)>>
    /\ ~\E r \in snapshots : r.cluster = "a" /\ r.ts = CollectInterval
    /\ \E r \in snapshots : r.cluster = "b" /\ r.ts = CollectInterval
    /\ \E r \in snapshots : r.cluster = "a" /\ r.ts = 2 * CollectInterval
    /\ \E r \in snapshots : r.cluster = "b" /\ r.ts = 2 * CollectInterval

-----------------------------------------------------------------------------
(* Claims about the order of the collector's work *)

ConfigIndex(c) == CHOOSE i \in DOMAIN configs : configs[i].name = c

\* the place of a call in the pass over one cluster
Rank(op) ==
    CASE op = "GetNodeCount" -> 1
      [] op = "GetPodSummary" -> 2
      [] op = "CheckConnectivity" -> 3
      [] op = "GetCPUUsage" -> 4
      [] op = "GetMemoryUsage" -> 5
      [] op = "SaveSnapshot" -> 6
      [] op = "SaveAlert" -> 7

InCycle == pc # "select"

\* C21: the collector is one sequential loop: a prune runs only between
\* cycles and a cycle starts only when the one before has returned; within
\* a cycle the clusters are handled one at a time in configuration order,
\* and for each cluster the probes come first, then its snapshot append,
\* then its alert writes, all before the first probe of the next cluster.
C21_SequentialLoop ==
    /\ [](\A i, j \in DOMAIN log : i < j =>
              \/ ConfigIndex(log[i].cluster) < ConfigIndex(log[j].cluster)
              \/ /\ log[i].cluster = log[j].cluster
                 /\ \/ Rank(log[i].op) < Rank(log[j].op)
                    \/ log[i].op = "SaveAlert" /\ log[j].op = "SaveAlert")
    /\ []((InCycle /\ pc # "return" /\ idx <= Len(configs)) =>
              \A i \in DOMAIN log : ConfigIndex(log[i].cluster) <= idx)
    /\ [][/\ (cleanC /\ ~cleanC') => (~InCycle /\ pc' = pc)
          /\ (ret'.op = "CleanupOldSnapshots" /\ ret' # ret) => ~InCycle
          /\ snapshots' # snapshots => (InCycle \/ cleanC)
          /\ cycles' # cycles => ~InCycle]_vars

\* both tickers fired together; the cycle ran over two calls and an alert
\* write for the cluster, and the prune ran after it had returned
C21_Witness ==
    /\ CycleOver
    /\ ret.op = "CleanupOldSnapshots" /\ ret.at = now
    /\ \E r \in snapshots : r.ts = ret.at
    /\ \E i, j \in DOMAIN log :
          i < j /\ log[i].op = "SaveSnapshot" /\ log[j].op = "SaveAlert"

-----------------------------------------------------------------------------
(* Alert thresholds against the health rule *)

AllSeverities == Severities(CpuKinds \cup MemKinds \cup PodKinds)

\* the tier of the values the thresholds are evaluated on; the collector
\* hands no pending count to the evaluation
CycleTier(pending) == determineClusterStatus(snapshot.cpu, snapshot.mem, pending, failed)

\* C22 as stated: every value past a Critical boundary of the health rule
\* raises a Critical alert, failed pods included, so values that classify
\* as Critical raise at least one Critical alert.
C22_CriticalTierRaisesCritical ==
    (pc = "loop") =>
        /\ failed > 0 => Severities(PodKinds) = {"Critical"}
        /\ CycleTier(0) = "Critical" => "Critical" \in AllSeverities

\* C22, amended: the thresholds are the numeric boundaries of the health
\* rule: cpu > 95 and mem > 95 raise a Critical alert, cpu > 80 and
\* mem > 80 below that a Warning alert, and a failed-pod count > 0 raises a
\* Warning alert.  So values that classify as Critical raise a Critical
\* alert when cpu or mem is past 95 and otherwise only the failed-pod
\* Warning; a Critical alert is raised only for values that classify as
\* Critical, and no alert for values that classify as Healthy.
C22_ThresholdsAreTierBoundaries ==
    (pc = "loop") =>
        /\ Severities(CpuKinds) = (IF snapshot.cpu > CPUCritical THEN {"Critical"}
                                   ELSE IF snapshot.cpu > CPUWarning THEN {"Warning"}
                                   ELSE {})
        /\ Severities(MemKinds) = (IF snapshot.mem > MemCritical THEN {"Critical"}
                                   ELSE IF snapshot.mem > MemWarning THEN {"Warning"}
                                   ELSE {})
        /\ Severities(PodKinds) = (IF failed > 0 THEN {"Warning"} ELSE {})
        /\ \A pending \in PendingSamples :
              /\ CycleTier(pending) = "Critical" =>
                    \/ "Critical" \in AllSeverities
                    \/ failed > 0 /\ AllSeverities = {"Warning"}
              /\ "Critical" \in AllSeverities => CycleTier(pending) = "Critical"
        /\ CycleTier(0) = "Healthy" <=> AllSeverities = {}

\* failed pods alone: the values classify as Critical, one Warning is raised
C22_Witness ==
    /\ pc = "loop"
    /\ snapshot.cpu = 50 /\ snapshot.mem = 80 /\ failed = 2
    /\ CycleTier(0) = "Critical"
    /\ AllSeverities = {"Warning"}
    /\ \E r \in alerts : r.ts = now /\ r.severity = "Warning" /\ r.message.kind = "pods failed"

-----------------------------------------------------------------------------
(* The read API: GetClusters and GetClusterDetails.  One request is served  *)
(* by one goroutine: pc is its position, snapshot the cluster it is filling *)
(* with the pod counts it holds in locals, tier the response so far.        *)

HandlerTimeout == 30
K8sCheckTimeout == 5

\* k8s.CheckConnectivity: no client, or Nodes().List(Limit: 1) under ctx cut to 5 s
K8sCheck(resp) ==
    [ok |-> resp = "ok",
     t |-> IF resp = "hang" THEN Min({deadline, now + K8sCheckTimeout}) ELSE now]

Requests ==
    {[op |-> "GetClusters", name |-> ""]}
    \cup {[op |-> "GetClusterDetails", name |-> n] : n \in LookupNames}

\* models.Cluster{Name: cfg.Name, ..., Status: "Unknown"} and the zero locals
NewCluster(c) ==
    [name |-> c, status |-> "Unknown", cpu |-> 0, mem |-> 0, nodes |-> 0, pods |-> 0,
     pending |-> 0, failed |-> 0]

NoResponse == [code |-> 0, clusters |-> <<>>]

InitRead ==
    /\ \E g \in Registries :
          /\ ~g.nil
          /\ k8sNil = g.nil /\ configs = g.configs /\ clients = g.clients
    /\ now = 0 /\ nextTick = CollectInterval /\ nextClean = CleanupInterval
    /\ tickC = FALSE /\ cleanC = FALSE
    /\ pc = "h.begin" /\ idx = 0 /\ deadline = 0
    /\ snapshot = NewCluster("") /\ failed = 0
    /\ snapshots = {} /\ alerts = {}
    /\ log = <<>> /\ cycles = 0 /\ faults = 0
    /\ ret = NoRet /\ req \in Requests /\ tier = NoResponse /\ main = AtQuit

handlerFrame == <<registryVars, timerVars, failed, snapshots, alerts, cycles, ret, req,
                  main>>

Named(n) == {i \in DOMAIN configs : configs[i].name = n}

\* ctx with the 30 s timeout; GetClusterDetails looks the config up by name
HandlerBegin ==
    /\ pc = "h.begin"
    /\ deadline' = now + HandlerTimeout
    /\ IF req.op = "GetClusters"
       THEN /\ idx' = 1 /\ pc' = "h.range" /\ tier' = tier
       ELSE IF Named(req.name) = {}
       THEN /\ idx' = idx /\ pc' = "h.done"
            /\ tier' = [code |-> 404, clusters |-> <<>>]
       ELSE /\ idx' = Min(Named(req.name)) /\ pc' = "h.cluster" /\ tier' = tier
    /\ UNCHANGED <<handlerFrame, now, snapshot, log, faults>>

\* for _, cfg := range configs { if !cfg.Enabled { continue } ... }
HandlerRange ==
    /\ pc = "h.range"
    /\ IF idx > Len(configs)
       THEN /\ pc' = "h.done" /\ idx' = idx
            /\ tier' = [tier EXCEPT !.code = 200]
       ELSE IF ~configs[idx].enabled
       THEN /\ pc' = pc /\ idx' = idx + 1 /\ tier' = tier
       ELSE /\ pc' = "h.cluster" /\ idx' = idx /\ tier' = tier
    /\ UNCHANGED <<handlerFrame, now, deadline, snapshot, log, faults>>

HandlerCluster ==
    /\ pc = "h.cluster"
    /\ snapshot' = NewCluster(Cur)
    /\ pc' = "h.check"
    /\ UNCHANGED <<handlerFrame, now, idx, deadline, log, faults, tier>>

\* append(clusters, cluster); continue  /  c.JSON(http.StatusOK, ...); return
Respond(cluster) ==
    IF req.op = "GetClusters"
    THEN /\ tier' = [tier EXCEPT !.clusters = Append(@, cluster)]
         /\ idx' = idx + 1 /\ pc' = "h.range"
    ELSE /\ tier' = [code |-> 200, clusters |-> <<cluster>>]
         /\ idx' = idx /\ pc' = "h.done"

\* if !h.k8sService.CheckConnectivity(ctx, cfg.Name) { cluster.Status = "Critical"; ... }
HandlerConnectivity ==
    /\ pc = "h.check"
    /\ \E resp \in K8sAnswers(Cur) :
          LET out == K8sCheck(resp)
          IN  /\ now' = out.t
              /\ faults' = faults + Fault(resp)
              /\ log' = Append(log, Entry("k8s.CheckConnectivity", Cur, resp, out.ok, NoSnapshot))
              /\ IF out.ok
                 THEN /\ pc' = "h.nodes"
                      /\ UNCHANGED <<snapshot, idx, tier>>
                 ELSE /\ snapshot' = [snapshot EXCEPT !.status = "Critical"]
                      /\ Respond(snapshot')
    /\ UNCHANGED <<handlerFrame, deadline>>

HandlerNodeCount ==
    /\ pc = "h.nodes"
    /\ \E resp \in K8sAnswers(Cur) :
          LET out == K8sCall(resp)
          IN  /\ snapshot' = IF out.ok THEN [snapshot EXCEPT !.nodes = TrueNodes[Cur]]
                                       ELSE snapshot
              /\ now' = out.t
              /\ faults' = faults + Fault(resp)
              /\ log' = Append(log, Entry("GetNodeCount", Cur, resp, out.ok, NoSnapshot))
    /\ pc' = "h.pods"
    /\ UNCHANGED <<handlerFrame, idx, deadline, tier>>

\* running, pending, failed, total, err := h.k8sService.GetPodSummary(ctx, cfg.Name)
HandlerPodSummary ==
    /\ pc = "h.pods"
    /\ \E resp \in K8sAnswers(Cur) :
          LET out == K8sCall(resp)
              sum == PodSummaryResult(out.ok, TruePods[Cur]).sum
          IN  /\ snapshot' = [snapshot EXCEPT !.pods = sum.total, !.pending = sum.pending,
                                              !.failed = sum.failed]
              /\ now' = out.t
              /\ faults' = faults + Fault(resp)
              /\ log' = Append(log, Entry("GetPodSummary", Cur, resp, out.ok, NoSnapshot))
    /\ pc' = "h.prom"
    /\ UNCHANGED <<handlerFrame, idx, deadline, tier>>

HandlerPromCheck ==
    /\ pc = "h.prom"
    /\ \E resp \in NetAnswers :
          LET out == PromCheck(resp)
          IN  /\ now' = out.t
              /\ faults' = faults + Fault(resp)
              /\ log' = Append(log, Entry("CheckConnectivity", Cur, resp, out.ok, NoSnapshot))
              /\ pc' = IF out.ok THEN "h.cpu" ELSE "h.status"
    /\ UNCHANGED <<handlerFrame, idx, deadline, snapshot, tier>>

HandlerCPUUsage ==
    /\ pc = "h.cpu"
    /\ \E resp \in NetAnswers :
          LET out == PromQuery(resp)
          IN  /\ snapshot' = IF out.ok THEN [snapshot EXCEPT !.cpu = TrueCpu[Cur]]
                                       ELSE snapshot
              /\ now' = out.t
              /\ faults' = faults + Fault(resp)
              /\ log' = Append(log, Entry("GetCPUUsage", Cur, resp, out.ok, NoSnapshot))
    /\ pc' = "h.mem"
    /\ UNCHANGED <<handlerFrame, idx, deadline, tier>>

HandlerMemoryUsage ==
    /\ pc = "h.mem"
    /\ \E resp \in NetAnswers :
          LET out == PromQuery(resp)
          IN  /\ snapshot' = IF out.ok THEN [snapshot EXCEPT !.mem = TrueMem[Cur]]
                                       ELSE snapshot
              /\ now' = out.t
              /\ faults' = faults + Fault(resp)
              /\ log' = Append(log, Entry("GetMemoryUsage", Cur, resp, out.ok, NoSnapshot))
    /\ pc' = "h.status"
    /\ UNCHANGED <<handlerFrame, idx, deadline, tier>>

StatusOfCpuAlone(cluster) ==
    determineClusterStatus(cluster.cpu, cluster.cpu, cluster.pending, cluster.failed)

\* determineClusterStatus(cluster.CPUUsage, cluster.MemoryUsage, pending, failed)
StatusOf(cluster) ==
    determineClusterStatus(cluster.cpu, cluster.mem, cluster.pending, cluster.failed)

HandlerStatus ==
    /\ pc = "h.status"
    /\ snapshot' = [snapshot EXCEPT !.status = StatusOf(snapshot)]
    /\ Respond(snapshot')
    /\ UNCHANGED <<handlerFrame, now, deadline, log, faults>>

NextRead ==
    \/ HandlerBegin
    \/ HandlerRange
    \/ HandlerCluster
    \/ HandlerConnectivity
    \/ HandlerNodeCount
    \/ HandlerPodSummary
    \/ HandlerPromCheck
    \/ HandlerCPUUsage
    \/ HandlerMemoryUsage
    \/ HandlerStatus

SpecRead == InitRead /\ [][NextRead]_vars

Responded == pc = "h.done" /\ tier.code = 200

\* what the request gathered for cluster c, read off its calls
Gathered(c) ==
    LET sum == PodSummaryResult(Succeeded(c, "GetPodSummary"), TruePods[c]).sum
    IN  [cpu |-> IF Succeeded(c, "GetCPUUsage") THEN TrueCpu[c] ELSE 0,
         mem |-> IF Succeeded(c, "GetMemoryUsage") THEN TrueMem[c] ELSE 0,
         pending |-> sum.pending,
         failed |-> sum.failed]

Reported == {tier.clusters[i] : i \in DOMAIN tier.clusters}

Classified(g) == determineClusterStatus(g.cpu, g.mem, g.pending, g.failed)

\* C23 as stated: the status of every cluster in a response is classify of
\* the cpu, mem, pending and failed values gathered in the request, also
\* for an unreachable or a disabled cluster.
C23_StatusIsClassify ==
    Responded =>
        /\ \A cl \in Reported : cl.status = Classified(Gathered(cl.name))
        /\ req.op = "GetClusters" =>
              \A i \in DOMAIN configs : \E cl \in Reported : cl.name = configs[i].name

\* C23, amended: a cluster whose Kubernetes connectivity probe succeeded in
\* the request is reported with classify of the values gathered in the
\* request (zero for every value whose call failed); a cluster whose probe
\* failed -- no client, as for every disabled cluster, or no answer -- is
\* reported Critical with all values zero and no further call; the list
\* reports the enabled clusters only, in configuration order, and the
\* detail operation answers not-found for a name that is not configured.
C23_StatusOfReachableIsClassify ==
    /\ Responded =>
          /\ \A cl \in Reported :
                IF Succeeded(cl.name, "k8s.CheckConnectivity")
                THEN /\ cl.status = Classified(Gathered(cl.name))
                     /\ cl.cpu = Gathered(cl.name).cpu /\ cl.mem = Gathered(cl.name).mem
                ELSE /\ cl = [NewCluster(cl.name) EXCEPT !.status = "Critical"]
                     /\ \A i \in DOMAIN log : log[i].cluster = cl.name =>
                           log[i].op = "k8s.CheckConnectivity"
          /\ req.op = "GetClusters" =>
                /\ {cl.name : cl \in Reported} = EnabledNames
                /\ \A i, j \in DOMAIN tier.clusters : i < j =>
                      ConfigIndex(tier.clusters[i].name) < ConfigIndex(tier.clusters[j].name)
          /\ req.op = "GetClusterDetails" =>
                /\ Len(tier.clusters) = 1 /\ tier.clusters[1].name = req.name
    /\ (pc = "h.done" /\ tier.code = 404) => (Named(req.name) = {} /\ log = <<>>)

\* a list of two clusters: the first has no client and is reported Critical
\* with nothing gathered, the second is reached and classified Warning from
\* its cpu value alone, the memory query having failed
C23_Witness ==
    /\ Responded /\ req.op = "GetClusters"
    /\ Len(tier.clusters) = 2
    /\ tier.clusters[1].status = "Critical" /\ ~Succeeded("a", "k8s.CheckConnectivity")
    /\ tier.clusters[2].status = "Warning" /\ Succeeded("b", "GetCPUUsage")
    /\ ~Succeeded("b", "GetMemoryUsage")

-----------------------------------------------------------------------------
(* Shutdown: main waits for SIGINT or SIGTERM, gives server.Shutdown ten    *)
(* seconds and returns; the process ends when main returns.                 *)

ShutdownTimeout == 10

\* how long after the collector went to sleep the signal may arrive
SignalDelays == {0, 55}

\* <-quit
Signal ==
    /\ main.at = "quit"
    /\ \E d \in SignalDelays :
          /\ d > 0 => (pc = "select" /\ ~tickC /\ ~cleanC
                       /\ now + d < Min({nextTick, nextClean}))
          /\ now' = now + d
          /\ main' = [at |-> "Shutdown", since |-> now']
    /\ UNCHANGED <<registryVars, timerVars, loopVars, histVars, snapshots, alerts, ret,
                   req, tier>>

\* server.Shutdown(ctx) returns, at the latest when its ctx expires, and
\* main returns
MainReturns ==
    /\ main.at = "Shutdown"
    /\ main' = [main EXCEPT !.at = "exited"]
    /\ UNCHANGED <<registryVars, timerVars, loopVars, histVars, now, snapshots, alerts,
                   ret, req, tier>>

\* the collector goroutine runs for as long as the process does
CollectorRuns ==
    /\ main.at # "exited"
    /\ Next
    /\ main.at = "Shutdown" => now' <= main.since + ShutdownTimeout

NextShutdown == CollectorRuns \/ Signal \/ MainReturns

SpecShutdown == Init /\ [][NextShutdown]_vars

ShutdownRequested == main.at \in {"Shutdown", "exited"}

\* C24: shutting the whole engine down stops both timers cleanly: once
\* shutdown is requested no collection cycle and no prune is started, and
\* the collector loop has come to its end, at its select, by the time the
\* process exits.
C24_ShutdownStopsCollector ==
    /\ [][ShutdownRequested =>
              /\ cycles' = cycles
              /\ ~(cleanC /\ ~cleanC')]_vars
    /\ [](main.at = "exited" => pc = "select")

-----------------------------------------------------------------------------
(* Alerts of a cluster whose snapshot was lost *)

AlertWrites == [i \in 1 .. Len(log) - 1 |-> log[i + 1].arg]

\* C25: the evaluation of the thresholds does not depend on the snapshot
\* write.  When the append of a cluster's snapshot fails, the thresholds
\* are evaluated on the values of that snapshot all the same and the alerts
\* are written, so that an alert is stored for a cluster and cycle of which
\* no snapshot is stored.
C25_AlertsWithoutSnapshot ==
    (pc = "loop" /\ ~log[1].ok) =>
        /\ log[1].op = "SaveSnapshot" /\ snapshots = {}
        /\ AlertWrites = AlertsFor(log[1].cluster, log[1].arg.cpu, log[1].arg.mem, failed)
        /\ log[1].arg.cpu > CPUWarning => AlertEntries(CpuKinds) # {}
        /\ log[1].arg.mem > MemWarning => AlertEntries(MemKinds) # {}
        /\ failed > 0 => AlertEntries(PodKinds) # {}
        /\ \A i \in DOMAIN log : (i > 1 /\ log[i].ok) =>
              \E r \in alerts : r = [log[i].arg EXCEPT !.id = r.id, !.ts = log[1].arg.ts]

\* the snapshot with cpu 96 was lost and its Critical alert is stored
C25_Witness ==
    /\ pc = "loop" /\ ~log[1].ok /\ snapshots = {}
    /\ log[1].arg.cpu = 96 /\ log[1].arg.mem = 50 /\ failed = 0
    /\ \E r \in alerts :
          /\ r.cluster = log[1].cluster /\ r.ts = log[1].arg.ts
          /\ r.severity = "Critical" /\ r.message.kind = "cpu critically high"

-----------------------------------------------------------------------------
(* Missing data *)

AlertsOf(c, kinds) ==
    {i \in EntriesOf(c, {"SaveAlert"}) : log[i].arg.message.kind \in kinds}

\* C26: missing data never raises an alert.  A metrics backend that is not
\* reachable or a query that fails leaves the percentage of the snapshot at
\* 0 and raises no alert of that kind; a pod listing that fails leaves the
\* failed-pod count at 0 and raises no failed-pod alert; a cluster without
\* client and without reachable metrics backend gets an all-zero snapshot
\* and no alert in every cycle.
C26_MissingDataRaisesNothing ==
    \A c \in Clusters :
        /\ \A k \in EntriesOf(c, {"SaveSnapshot"}) :
              /\ ~Succeeded(c, "GetCPUUsage") => log[k].arg.cpu = 0
              /\ ~Succeeded(c, "GetMemoryUsage") => log[k].arg.mem = 0
              /\ ~Succeeded(c, "GetPodSummary") => log[k].arg.pods = 0
              /\ ~Succeeded(c, "GetNodeCount") => log[k].arg.nodes = 0
              /\ (c \notin clients /\ ~Succeeded(c, "CheckConnectivity")) =>
                    log[k].arg = [NoSnapshot EXCEPT !.cluster = c, !.ts = log[k].arg.ts]
        /\ ~Succeeded(c, "GetCPUUsage") => AlertsOf(c, CpuKinds) = {}
        /\ ~Succeeded(c, "GetMemoryUsage") => AlertsOf(c, MemKinds) = {}
        /\ ~Succeeded(c, "GetPodSummary") => AlertsOf(c, PodKinds) = {}
        /\ (c \notin clients /\ ~Succeeded(c, "CheckConnectivity")) =>
              /\ EntriesOf(c, {"SaveAlert"}) = {}
              /\ (CycleOver /\ c \in EnabledNames) => Calls(c, "SaveSnapshot") = 1

\* the first cluster has a client and metrics and raised alerts; the second
\* has no client and its metrics backend did not answer: its all-zero
\* snapshot is stored and it has no alert
C26_Witness ==
    /\ CycleOver
    /\ configs = <<Cfg("a", TRUE), Cfg("b", TRUE)>> /\ clients = {"a"}
    /\ AlertsOf("a", CpuKinds) # {} /\ AlertsOf("a", PodKinds) # {}
    /\ ~Succeeded("b", "CheckConnectivity")
    /\ \E k \in EntriesOf("b", {"SaveSnapshot"}) :
          /\ log[k].ok /\ Stored(log[k])
          /\ log[k].arg = [NoSnapshot EXCEPT !.cluster = "b", !.ts = now]
    /\ EntriesOf("b", {"SaveAlert"}) = {}

====
